---- MODULE Spec2Model ----
(***************************************************************************)
(* Posting engine of the distributed payments ledger.                      *)
(*                                                                         *)
(* Two revisions of the engine are in the repository and both are          *)
(* modelled; the variable rev says which one a behaviour runs:             *)
(*   "pg"  : Ledger.PostTransaction of src/unnamed/part_001 (the final     *)
(*           revision: one SaveTransactionWithEntries call, then a Kafka   *)
(*           event), wired by the server of                                *)
(*           src/internal/events/kafka/publisher.go lines 38-197, on the   *)
(*           tables of src/unnamed/part_000;                               *)
(*   "mem" : Ledger.PostTransaction of src/internal/ledger/ledger.go (the  *)
(*           earlier revision: SaveTransaction, SaveEntry, SaveEntry) on   *)
(*           the MemoryLedgerStore of src/unnamed/part_004, wired by the   *)
(*           server of src/cmd/server/main.go lines 71-199.                *)
(* Every PostTransaction call is a process that takes one step per shared  *)
(* memory access: store call, registry access, mutex Lock, return.         *)
(***************************************************************************)
EXTENDS Integers, Sequences, FiniteSets, TLC

\* ------------------------------------------------------------- bounds
\* Number of PostTransaction calls (HTTP requests) whose requests are drawn
\* from Requests; the lock-order scenario (SpecCycle) runs one call more, over
\* CycleTransfers.
NumCalls == 2

Calls == 1..(NumCalls + 1)
Posters == 1..NumCalls

\* Account ids in Go's string order: "" < "A" < "B" < "C" < "D".
AccountOrder == <<"", "A", "B", "C", "D">>
Accounts == {AccountOrder[i] : i \in 1..Len(AccountOrder)}
Keys == {"k1", "k2"}

\* No value (a string field not set yet) and no call (a free mutex).
None == "none"
NoCall == 0
\* No mutex: the registry has no entry for the account id.
NoMutex == 0

VARIABLES
  rev,          \* the revision the process runs: "pg" or "mem"
  pc,           \* pc[c]: where call c stands in the handler / PostTransaction
  tx,           \* tx[c]: the models.Transaction the handler built for call c
  exists,       \* exists[c]: PostTransaction's local `exists`
  saved,        \* saved[c]: what the persistence call of c returned
  result,       \* result[c]: what PostTransaction returned to the handler
  now,          \* the wall clock (time.Now())
  transactions, \* the store's transactions table / map
  entries,      \* the store's ledger entries, in insertion order
  muMap,        \* Ledger.muMap: the account ids that have a mutex
  holder,       \* holder[a]: the call that holds the mutex of account a
  published,    \* the events handed to the publisher so far
  doneBefore,   \* history: doneBefore[c], the calls that had returned when
                \* the request of call c arrived
  cancelled,    \* cancelled[c]: where call c stood when its caller cancelled
                \* the context it passed to PostTransaction; None while the
                \* context is live
  mapMu,        \* Ledger.mapMu: the goroutine that holds it, or NoCall
  mutexOf,      \* Ledger.muMap seen step by step: mutexOf[a] is the
                \* *sync.Mutex stored under account id a, or NoMutex
  created,      \* the number of sync.Mutex objects allocated so far
  lookup        \* lookup[g]: the getAccountLock call goroutine g is in

\* The variables of the step-by-step view of getAccountLock. The posting
\* actions take getAccountLock as one step and identify a mutex with its
\* account id; they leave these variables alone.
regVars == <<mapMu, mutexOf, created, lookup>>

\* The variables of the postings other than the lock registry.
postVars == <<rev, pc, tx, exists, saved, result, now, transactions, entries,
              holder, published, doneBefore, cancelled>>

vars == <<rev, pc, tx, exists, saved, result, now, transactions, entries,
          muMap, holder, published, doneBefore, cancelled, regVars>>

\* ------------------------------------------------------------- values

NoTx == [id |-> 0, key |-> None, from |-> None, to |-> None, amount |-> 0,
         createdAt |-> 0]

NoResult == [replayed |-> FALSE, err |-> None]

\* What a request carries: header Idempotency-Key and the JSON body.
\* Transfers with a positive amount, under either key: A to B, B to A, and
\* the self-transfer A to A.
Transfers ==
  {r \in [key : Keys, from : {"A", "B"}, to : {"A", "B"}, amount : {1}] :
     r.from = "A" \/ r.to = "A"}
\* Requests with a zero or negative amount.
NonPositive == [key : {"k1"}, from : {"A"}, to : {"B"}, amount : {0 - 1, 0}]
\* Requests whose from_account or to_account is missing (the empty string).
MissingAccount ==
  {r \in [key : {"k1"}, from : {"", "A"}, to : {"", "A"}, amount : {1}] :
     r.from # r.to}
Requests == Transfers \cup NonPositive \cup MissingAccount
\* Transfers between different accounts among A, B and C: the pair A, B in
\* both directions and the cycle A to B, B to C, C to A.
CycleTransfers ==
  {r \in [key : {"k1"}, from : {"A", "B", "C"}, to : {"A", "B", "C"},
          amount : {1}] :
     <<r.from, r.to>> \in {<<"A", "B">>, <<"B", "A">>, <<"B", "C">>,
                           <<"C", "A">>}}
\* Transfers over the disjoint account pairs {A, B} and {C, D}, in both
\* directions.
DisjointTransfers ==
  {r \in [key : {"k1"}, from : {"A", "B", "C", "D"}, to : {"A", "B", "C", "D"},
          amount : {1}] :
     <<r.from, r.to>> \in {<<"A", "B">>, <<"B", "A">>, <<"C", "D">>,
                           <<"D", "C">>}}

\* Go's tx.FromAccount < tx.ToAccount on strings.
Rank(a) == CHOOSE i \in 1..Len(AccountOrder) : AccountOrder[i] = a
\* A mutant of Less: the comparison is reversed, the larger id is locked first.
Less_Descending(a, b) == Rank(a) > Rank(b)
Less(a, b) == Rank(a) < Rank(b)

\* A mutant of Neg: the sign is kept.
Neg_Identity(d) == d

\* decimal.Decimal is modelled by the integers (minor units).
Neg(d) == 0 - d
Cmp(d, e) == IF d < e THEN 0 - 1 ELSE IF d > e THEN 1 ELSE 0

DebitID(id) == <<id, "-debit">>
CreditID(id) == <<id, "-credit">>

\* The two entries PostTransaction builds from tx.
DebitEntry(t) == [id |-> DebitID(t.id), account |-> t.from,
                  amount |-> Neg(t.amount), createdAt |-> t.createdAt]
CreditEntry(t) == [id |-> CreditID(t.id), account |-> t.to,
                   amount |-> t.amount, createdAt |-> t.createdAt]

\* ------------------------------------------------------------- store

\* LedgerStore.TransactionExists: a transaction with this idempotency key is
\* stored (the map lookup of MemoryLedgerStore; the query of the SQL store).
TransactionExists(key) == \E r \in transactions : r.key = key

\* transactions.id TEXT PRIMARY KEY
TransactionIdFree(rows, t) == \A r \in rows : r.id # t.id

\* A mutant of IdempotencyKeyFree: the column is not declared UNIQUE.
IdempotencyKeyFree_NotUnique(rows, t) == TRUE

\* transactions.idempotency_key TEXT NOT NULL UNIQUE
IdempotencyKeyFree(rows, t) == \A r \in rows : r.key # t.key

\* ledger_entries.id TEXT PRIMARY KEY
EntryIdFree(es, e) == \A i \in 1..Len(es) : es[i].id # e.id

\* A mutant of SaveTransactionWithEntries: an upsert, the row stored under the
\* transaction's idempotency key is replaced.
SaveTransactionWithEntries_Upsert(t, debit, credit, fail) ==
  IF fail
  THEN [outcome |-> "failure", transactions |-> transactions,
        entries |-> entries]
  ELSE [outcome |-> "success",
        transactions |-> {r \in transactions : r.key # t.key} \cup {t},
        entries |-> Append(Append(SelectSeq(entries,
                                            LAMBDA e : tx[e.id[1]].key # t.key),
                                  debit), credit)]

\* A mutant of SaveTransactionWithEntries: the credit entry is not inserted.
SaveTransactionWithEntries_NoCredit(t, debit, credit, fail) ==
  IF fail \/ ~IdempotencyKeyFree(transactions, t)
  THEN [outcome |-> IF fail THEN "failure" ELSE "duplicateKey",
        transactions |-> transactions, entries |-> entries]
  ELSE [outcome |-> "success", transactions |-> transactions \cup {t},
        entries |-> Append(entries, debit)]

\* LedgerStore.SaveTransactionWithEntries(ctx, tx, debit, credit): the three
\* inserts in one database transaction. fail: the database fails somewhere
\* before the commit (connectivity, a crash between rows). The outcome and the
\* tables after the call: all three rows, or none.
SaveTransactionWithEntries(t, debit, credit, fail) ==
  LET same == [outcome |-> "failure", transactions |-> transactions,
               entries |-> entries]
  IN IF fail THEN same
     ELSE IF ~IdempotencyKeyFree(transactions, t)
       THEN [same EXCEPT !.outcome = "duplicateKey"]
     ELSE IF ~TransactionIdFree(transactions, t)
             \/ ~EntryIdFree(entries, debit)
             \/ ~EntryIdFree(Append(entries, debit), credit)
       THEN same
     ELSE [outcome |-> "success",
           transactions |-> transactions \cup {t},
           entries |-> Append(Append(entries, debit), credit)]

\* MemoryLedgerStore.SaveTransaction: m.transactions[key] = transaction.
MemSaveTransaction(rows, t) == {r \in rows : r.key # t.key} \cup {t}

\* A mutant of MemSaveEntry: the newest stored entry is replaced.
MemSaveEntry_Overwrite(es, e) ==
  IF es = <<>> THEN <<e>> ELSE [es EXCEPT ![Len(es)] = e]

\* MemoryLedgerStore.SaveEntry: m.entries = append(m.entries, entry).
MemSaveEntry(es, e) == Append(es, e)

\* A mutant of GetEntriesByAccount: the entries are not filtered by account.
GetEntriesByAccount_AllAccounts(a) == entries

\* LedgerStore.GetEntriesByAccount: the entries of one account, in order.
GetEntriesByAccount(a) == SelectSeq(entries, LAMBDA e : e.account = a)

RECURSIVE SumAmounts(_)
SumAmounts(es) ==
  IF es = <<>> THEN 0 ELSE Head(es).amount + SumAmounts(Tail(es))

\* Ledger.GetBalance: decimal.Zero plus every entry's amount.
GetBalance(a) == SumAmounts(GetEntriesByAccount(a))

\* ------------------------------------------------------------- publisher

\* kafka.Writer{Topic: ...} of NewPublisher.
WriterTopic == "transaction_completed"

\* events.TransactionCompleted built by PostTransaction.
CompletedEvent(t) == [txid |-> t.id, from |-> t.from, to |-> t.to,
                      amount |-> t.amount, occurredAt |-> now]

\* Publisher.Publish(topic, event): the message is written by the writer,
\* whose own Topic decides where it goes; the topic argument is not used.
Publish(topic, event) == [topic |-> WriterTopic, event |-> event]

\* ------------------------------------------------------------- locks

\* A mutant of LockOrder: the locks are taken in the caller's from/to order.
LockOrder_CallerOrder(t) == <<t.from, t.to>>

\* The accounts whose mutexes PostTransaction locks, in the order it locks
\* them: debit, credit when tx.FromAccount < tx.ToAccount, else credit, debit.
LockOrder(t) == IF Less(t.from, t.to) THEN <<t.from, t.to>> ELSE <<t.to, t.from>>

FirstLock(t) == LockOrder(t)[1]
SecondLock(t) == LockOrder(t)[2]

\* A mutant of Released: only the debit mutex is unlocked.
Released_DebitOnly(c) == [holder EXCEPT ![tx[c].from] = NoCall]

\* The deferred debitMutex.Unlock() and creditMutex.Unlock().
Released(c) ==
  [a \in Accounts |-> IF a \in {tx[c].from, tx[c].to} THEN NoCall
                      ELSE holder[a]]

\* ------------------------------------------------------------- handler

\* What the /transactions handler answers for PostTransaction's return value:
\* 400 with the error text, 200 "Duplicate Transaction", 201 Created.
Outcome(c) ==
  IF result[c].err = "amount must be positive" THEN "validationError"
  ELSE IF result[c].err # "nil" THEN "storageError"
  ELSE IF result[c].replayed THEN "duplicate"
  ELSE "posted"

\* The /transactions handler: a request arrives and the handler builds the
\* transaction (ID: a fresh uuid, CreatedAt: time.Now()) and calls
\* PostTransaction. Calls are numbered in the order their requests arrive.
HandleRequest(c, reqs) ==
  /\ pc[c] = "idle"
  /\ \A d \in Calls : d < c => pc[d] # "idle"
  /\ \E r \in reqs :
       tx' = [tx EXCEPT ![c] = [id |-> c, key |-> r.key, from |-> r.from,
                                to |-> r.to, amount |-> r.amount,
                                createdAt |-> now + 1]]
  /\ now' = now + 1
  /\ pc' = [pc EXCEPT ![c] = "check"]
  /\ doneBefore' = [doneBefore EXCEPT ![c] = {d \in Calls : pc[d] = "done"}]
  /\ UNCHANGED <<rev, exists, saved, result, transactions, entries, muMap,
                 holder, published, cancelled,
                 regVars>>

\* ------------------------------------------------------------- PostTransaction

\* A mutant of IdempotencyCheck: the two account mutexes are fetched from the
\* registry before the stored key is looked up.
IdempotencyCheck_AfterRegistry(c) ==
  /\ pc[c] = "check"
  /\ exists' = [exists EXCEPT ![c] = TransactionExists(tx[c].key)]
  /\ muMap' = muMap \cup {tx[c].from, tx[c].to}
  /\ IF exists'[c]
     THEN /\ result' = [result EXCEPT ![c] =
                          [replayed |-> rev = "pg", err |-> "nil"]]
          /\ pc' = [pc EXCEPT ![c] = "done"]
     ELSE /\ pc' = [pc EXCEPT ![c] = "lockFirst"]
          /\ UNCHANGED result
  /\ UNCHANGED <<rev, tx, saved, now, transactions, entries, holder,
                 published, doneBefore, cancelled,
                 regVars>>

\* The idempotency check. The SQL store's query may fail (the memory store's
\* lookup never does); then PostTransaction returns (false, err). A stored
\* key: return (true, nil), in the earlier revision return nil.
IdempotencyCheck(c) ==
  /\ pc[c] = "check"
  /\ \E fail \in (IF rev = "pg" THEN BOOLEAN ELSE {FALSE}) :
       IF fail
       THEN /\ result' = [result EXCEPT ![c] = [replayed |-> FALSE,
                                                 err |-> "store"]]
            /\ pc' = [pc EXCEPT ![c] = "done"]
            /\ UNCHANGED exists
       ELSE /\ exists' = [exists EXCEPT ![c] = TransactionExists(tx[c].key)]
            /\ IF exists'[c]
               THEN /\ result' = [result EXCEPT ![c] =
                                    [replayed |-> rev = "pg", err |-> "nil"]]
                    /\ pc' = [pc EXCEPT ![c] = "done"]
               ELSE /\ pc' = [pc EXCEPT ![c] = "getDebitLock"]
                    /\ UNCHANGED result
  /\ UNCHANGED <<rev, tx, saved, now, transactions, entries, muMap, holder,
                 published, doneBefore, cancelled,
                 regVars>>

\* A mutant of getAccountLock: the registry keeps the newest mutex only.
getAccountLock_Evicting(accountId) == {accountId}

\* Ledger.getAccountLock(accountId): under mapMu, the account's mutex is
\* created when the registry has none, and returned.
getAccountLock(accountId) == muMap \cup {accountId}

\* getAccountLock step by step, as the goroutines of concurrent postings run
\* it. lookup[g]: where goroutine g stands in its call, the accountId it
\* passed, what its lookup found, how many calls it has made, and the
\* <<account id, mutex>> pairs its calls returned.
NoLookup == [pc |-> "idle", accountId |-> None, exists |-> FALSE, n |-> 0,
             got |-> {}]

\* The account ids the goroutines ask a mutex for.
LookupAccounts == {"A", "B"}

\* PostTransaction calls getAccountLock twice: debitMutex, creditMutex.
CallGetAccountLock(g) ==
  /\ lookup[g].pc = "idle"
  /\ lookup[g].n < 2
  /\ \E a \in LookupAccounts :
       lookup' = [lookup EXCEPT ![g].pc = "lock", ![g].accountId = a]
  /\ UNCHANGED <<postVars, muMap, mapMu, mutexOf, created>>

\* A mutant of MapMuLock: mapMu is not waited for.
MapMuLock_Unguarded(g) ==
  /\ lookup[g].pc = "lock"
  /\ mapMu' = g
  /\ lookup' = [lookup EXCEPT ![g].pc = "lookup"]
  /\ UNCHANGED <<postVars, muMap, mutexOf, created>>

\* l.mapMu.Lock()
MapMuLock(g) ==
  /\ lookup[g].pc = "lock"
  /\ mapMu = NoCall
  /\ mapMu' = g
  /\ lookup' = [lookup EXCEPT ![g].pc = "lookup"]
  /\ UNCHANGED <<postVars, muMap, mutexOf, created>>

\* _, exists := l.muMap[accountId]
MuMapLookup(g) ==
  /\ lookup[g].pc = "lookup"
  /\ LET found == mutexOf[lookup[g].accountId] # NoMutex
     IN lookup' = [lookup EXCEPT ![g].exists = found,
                                 ![g].pc = IF found THEN "return"
                                           ELSE "insert"]
  /\ UNCHANGED <<postVars, muMap, mapMu, mutexOf, created>>

\* l.muMap[accountId] = &sync.Mutex{}: a mutex no one has seen before.
MuMapInsert(g) ==
  /\ lookup[g].pc = "insert"
  /\ created' = created + 1
  /\ mutexOf' = [mutexOf EXCEPT ![lookup[g].accountId] = created + 1]
  /\ muMap' = getAccountLock(lookup[g].accountId)
  /\ lookup' = [lookup EXCEPT ![g].pc = "return"]
  /\ UNCHANGED <<postVars, mapMu>>

\* return l.muMap[accountId], and the deferred l.mapMu.Unlock().
ReturnMutex(g) ==
  /\ lookup[g].pc = "return"
  /\ LET a == lookup[g].accountId
     IN lookup' = [lookup EXCEPT ![g].pc = "idle", ![g].n = @ + 1,
                                 ![g].got = @ \cup {<<a, mutexOf[a]>>}]
  /\ mapMu' = NoCall
  /\ UNCHANGED <<postVars, muMap, mutexOf, created>>

\* debitMutex := l.getAccountLock(tx.FromAccount)
GetDebitLock(c) ==
  /\ pc[c] = "getDebitLock"
  /\ muMap' = getAccountLock(tx[c].from)
  /\ pc' = [pc EXCEPT ![c] = "getCreditLock"]
  /\ UNCHANGED <<rev, tx, exists, saved, result, now, transactions, entries,
                 holder, published, doneBefore, cancelled,
                 regVars>>

\* creditMutex := l.getAccountLock(tx.ToAccount)
GetCreditLock(c) ==
  /\ pc[c] = "getCreditLock"
  /\ muMap' = getAccountLock(tx[c].to)
  /\ pc' = [pc EXCEPT ![c] = "lockFirst"]
  /\ UNCHANGED <<rev, tx, exists, saved, result, now, transactions, entries,
                 holder, published, doneBefore, cancelled,
                 regVars>>

\* A mutant of Lock: the mutex is taken without waiting for its holder.
Lock_NoWait(a, c) == holder' = [holder EXCEPT ![a] = c]

\* A mutant of Lock: one mutex for the whole ledger instead of one per account.
Lock_Global(a, c) ==
  /\ \A b \in Accounts : holder[b] \in {NoCall, c}
  /\ holder' = [holder EXCEPT ![a] = c]

\* sync.Mutex.Lock of the mutex of account a by call c: waits until it is free.
Lock(a, c) ==
  /\ holder[a] = NoCall
  /\ holder' = [holder EXCEPT ![a] = c]

\* The first Lock() of the if/else on tx.FromAccount < tx.ToAccount.
LockFirst(c) ==
  /\ pc[c] = "lockFirst"
  /\ Lock(FirstLock(tx[c]), c)
  /\ pc' = [pc EXCEPT ![c] = "lockSecond"]
  /\ UNCHANGED <<rev, tx, exists, saved, result, now, transactions, entries,
                 muMap, published, doneBefore, cancelled,
                 regVars>>

\* A mutant of LockSecond: the second mutex is not locked.
LockSecond_Skipped(c) ==
  /\ pc[c] = "lockSecond"
  /\ pc' = [pc EXCEPT ![c] = "validate"]
  /\ UNCHANGED <<rev, tx, exists, saved, result, now, transactions, entries,
                 muMap, holder, published, doneBefore, cancelled,
                 regVars>>

\* The second Lock() of the if/else.
LockSecond(c) ==
  /\ pc[c] = "lockSecond"
  /\ Lock(SecondLock(tx[c]), c)
  /\ pc' = [pc EXCEPT ![c] = "validate"]
  /\ UNCHANGED <<rev, tx, exists, saved, result, now, transactions, entries,
                 muMap, published, doneBefore, cancelled,
                 regVars>>

\* A mutant of AmountInvalid: only a negative amount is rejected.
AmountInvalid_ZeroAccepted(t) == Cmp(t.amount, 0) < 0

\* tx.Amount.Cmp(decimal.Zero) <= 0
AmountInvalid(t) == Cmp(t.amount, 0) <= 0

\* The validation, under both locks: a non-positive amount returns the error.
Validate(c) ==
  /\ pc[c] = "validate"
  /\ IF AmountInvalid(tx[c])
     THEN /\ result' = [result EXCEPT ![c] =
                          [replayed |-> FALSE, err |-> "amount must be positive"]]
          /\ pc' = [pc EXCEPT ![c] = "return"]
     ELSE /\ pc' = [pc EXCEPT ![c] = IF rev = "pg" THEN "persist" ELSE "saveTx"]
          /\ UNCHANGED result
  /\ UNCHANGED <<rev, tx, exists, saved, now, transactions, entries, muMap,
                 holder, published, doneBefore, cancelled,
                 regVars>>

\* A mutant of Persist: the transaction row is saved by a call of its own
\* before the entries, so a failure of the entries leaves the row behind.
Persist_NoRollback(c) ==
  /\ pc[c] = "persist"
  /\ \E fail \in BOOLEAN :
       LET r == SaveTransactionWithEntries(tx[c], DebitEntry(tx[c]),
                                           CreditEntry(tx[c]), FALSE)
       IN /\ saved' = [saved EXCEPT ![c] =
                         IF fail THEN "failure" ELSE r.outcome]
          /\ transactions' = r.transactions
          /\ entries' = IF fail THEN entries ELSE r.entries
  /\ pc' = [pc EXCEPT ![c] = "publish"]
  /\ UNCHANGED <<rev, tx, exists, result, now, muMap, holder, published,
                 doneBefore, cancelled,
                 regVars>>

\* A mutant of Persist: the transaction row and the entries are saved by two
\* store calls, one after the other.
Persist_TwoCalls(c) ==
  /\ pc[c] = "persist"
  /\ IF saved[c] = None
     THEN /\ transactions' = transactions \cup {tx[c]}
          /\ saved' = [saved EXCEPT ![c] = "row"]
          /\ UNCHANGED <<entries, pc>>
     ELSE /\ entries' = Append(Append(entries, DebitEntry(tx[c])),
                               CreditEntry(tx[c]))
          /\ saved' = [saved EXCEPT ![c] = "success"]
          /\ pc' = [pc EXCEPT ![c] = "publish"]
          /\ UNCHANGED transactions
  /\ UNCHANGED <<rev, tx, exists, result, now, muMap, holder, published,
                 doneBefore, cancelled,
                 regVars>>

\* Final revision: l.store.SaveTransactionWithEntries(ctx, tx, debit, credit),
\* whose returned error is dropped. The store gets ctx: with a cancelled
\* context its database transaction does not commit.
Persist(c) ==
  /\ pc[c] = "persist"
  /\ \E fail \in (IF cancelled[c] # None THEN {TRUE} ELSE BOOLEAN) :
       LET r == SaveTransactionWithEntries(tx[c], DebitEntry(tx[c]),
                                           CreditEntry(tx[c]), fail)
       IN /\ saved' = [saved EXCEPT ![c] = r.outcome]
          /\ transactions' = r.transactions
          /\ entries' = r.entries
  /\ pc' = [pc EXCEPT ![c] = "publish"]
  /\ UNCHANGED <<rev, tx, exists, result, now, muMap, holder, published,
                 doneBefore, cancelled,
                 regVars>>

\* A mutant of PublishEvent: the error of a failed Publish is returned.
PublishEvent_ErrorSurfaced(c) ==
  /\ pc[c] = "publish"
  /\ \E ok \in BOOLEAN :
       /\ published' = IF ok
                       THEN published \cup {Publish("transactions.completed",
                                                    CompletedEvent(tx[c]))}
                       ELSE published
       /\ result' = [result EXCEPT ![c] =
                       [replayed |-> FALSE,
                        err |-> IF ok THEN "nil" ELSE "publish"]]
  /\ pc' = [pc EXCEPT ![c] = "return"]
  /\ UNCHANGED <<rev, tx, exists, saved, now, transactions, entries, muMap,
                 holder, doneBefore, cancelled,
                 regVars>>

\* Final revision: the Kafka event and return false, nil. A failed Publish is
\* logged and nothing else.
PublishEvent(c) ==
  /\ pc[c] = "publish"
  /\ \E ok \in BOOLEAN :
       published' = IF ok
                    THEN published \cup {Publish("transactions.completed",
                                                 CompletedEvent(tx[c]))}
                    ELSE published
  /\ result' = [result EXCEPT ![c] = [replayed |-> FALSE, err |-> "nil"]]
  /\ pc' = [pc EXCEPT ![c] = "return"]
  /\ UNCHANGED <<rev, tx, exists, saved, now, transactions, entries, muMap,
                 holder, doneBefore, cancelled,
                 regVars>>

\* Earlier revision: l.store.SaveTransaction(tx).
SaveTransaction(c) ==
  /\ pc[c] = "saveTx"
  /\ transactions' = MemSaveTransaction(transactions, tx[c])
  /\ pc' = [pc EXCEPT ![c] = "saveDebit"]
  /\ UNCHANGED <<rev, tx, exists, saved, result, now, entries, muMap, holder,
                 published, doneBefore, cancelled,
                 regVars>>

\* Earlier revision: l.store.SaveEntry(ctx, debit).
SaveDebit(c) ==
  /\ pc[c] = "saveDebit"
  /\ entries' = MemSaveEntry(entries, DebitEntry(tx[c]))
  /\ pc' = [pc EXCEPT ![c] = "saveCredit"]
  /\ UNCHANGED <<rev, tx, exists, saved, result, now, transactions, muMap,
                 holder, published, doneBefore, cancelled,
                 regVars>>

\* Earlier revision: l.store.SaveEntry(ctx, credit) and return nil.
SaveCredit(c) ==
  /\ pc[c] = "saveCredit"
  /\ entries' = MemSaveEntry(entries, CreditEntry(tx[c]))
  /\ saved' = [saved EXCEPT ![c] = "success"]
  /\ result' = [result EXCEPT ![c] = [replayed |-> FALSE, err |-> "nil"]]
  /\ pc' = [pc EXCEPT ![c] = "return"]
  /\ UNCHANGED <<rev, tx, exists, now, transactions, muMap, holder, published,
                 doneBefore, cancelled,
                 regVars>>

\* Where a call stands before its persistence has committed anything.
BeforeCommit == {"check", "getDebitLock", "getCreditLock", "lockFirst",
                 "lockSecond", "validate", "persist", "saveTx"}

\* The caller cancels the context it passed to PostTransaction as ctx.
\* PostTransaction itself never reads ctx; it hands it to the store.
Cancel(c) ==
  /\ pc[c] \in BeforeCommit
  /\ cancelled[c] = None
  /\ cancelled' = [cancelled EXCEPT ![c] = pc[c]]
  /\ UNCHANGED <<rev, pc, tx, exists, saved, result, now, transactions,
                 entries, muMap, holder, published, doneBefore, regVars>>

\* The return after the locks were taken: the deferred Unlock() calls run.
Return(c) ==
  /\ pc[c] = "return"
  /\ holder' = Released(c)
  /\ pc' = [pc EXCEPT ![c] = "done"]
  /\ UNCHANGED <<rev, tx, exists, saved, result, now, transactions, entries,
                 muMap, published, doneBefore, cancelled,
                 regVars>>

\* ------------------------------------------------------------- specification

\* NewLedger and the new store: empty tables, empty registry, no call yet.
InitState ==
  /\ pc = [c \in Calls |-> "idle"]
  /\ tx = [c \in Calls |-> NoTx]
  /\ exists = [c \in Calls |-> FALSE]
  /\ saved = [c \in Calls |-> None]
  /\ result = [c \in Calls |-> NoResult]
  /\ now = 0
  /\ transactions = {}
  /\ entries = <<>>
  /\ muMap = {}
  /\ holder = [a \in Accounts |-> NoCall]
  /\ published = {}
  /\ doneBefore = [c \in Calls |-> {}]
  /\ cancelled = [c \in Calls |-> None]
  /\ mapMu = NoCall
  /\ mutexOf = [a \in Accounts |-> NoMutex]
  /\ created = 0
  /\ lookup = [g \in Calls |-> NoLookup]

Init == rev \in {"pg", "mem"} /\ InitState

\* The steps both revisions share.
Common(c, reqs) ==
  \/ HandleRequest(c, reqs)
  \/ IdempotencyCheck(c)
  \/ GetDebitLock(c)
  \/ GetCreditLock(c)
  \/ LockFirst(c)
  \/ LockSecond(c)
  \/ Validate(c)
  \/ Return(c)

\* The steps of the final revision only.
PgOnly(c) == Persist(c) \/ PublishEvent(c)

\* The steps of the earlier revision only.
MemOnly(c) == SaveTransaction(c) \/ SaveDebit(c) \/ SaveCredit(c)

\* Both revisions, NumCalls concurrent requests out of Requests.
Next == \E c \in Posters : Common(c, Requests) \/ PgOnly(c) \/ MemOnly(c)
Spec == Init /\ [][Next]_vars

\* The final revision alone.
InitPg == rev = "pg" /\ InitState
NextPg == \E c \in Posters : Common(c, Requests) \/ PgOnly(c)
SpecPg == InitPg /\ [][NextPg]_vars

\* The earlier revision alone.
InitMem == rev = "mem" /\ InitState
NextMem == \E c \in Posters : Common(c, Requests) \/ MemOnly(c)
SpecMem == InitMem /\ [][NextMem]_vars

\* Every step of call c after its request arrived: what the goroutine of the
\* request does once the scheduler runs it.
Proceed(c) ==
  \/ IdempotencyCheck(c)
  \/ GetDebitLock(c)
  \/ GetCreditLock(c)
  \/ LockFirst(c)
  \/ LockSecond(c)
  \/ Validate(c)
  \/ Return(c)
  \/ PgOnly(c)
  \/ MemOnly(c)

\* The lock-order scenario: NumCalls + 1 concurrent transfers out of
\* CycleTransfers, both revisions, every goroutine scheduled fairly.
NextCycle ==
  \E c \in Calls : Common(c, CycleTransfers) \/ PgOnly(c) \/ MemOnly(c)
SpecCycle ==
  Init /\ [][NextCycle]_vars /\ \A c \in Calls : WF_vars(Proceed(c))

\* The disjoint-pairs scenario: NumCalls concurrent transfers out of
\* DisjointTransfers, both revisions, every goroutine scheduled fairly.
NextDisjoint ==
  \E c \in Posters : Common(c, DisjointTransfers) \/ PgOnly(c) \/ MemOnly(c)
SpecDisjoint ==
  Init /\ [][NextDisjoint]_vars /\ \A c \in Posters : WF_vars(Proceed(c))

\* The cancellation scenario: PostTransaction called with a context that its
\* caller may cancel, NumCalls concurrent calls out of Transfers, both
\* revisions. (The /transactions handlers pass context.Background(), which is
\* never cancelled.)
NextCancel ==
  \E c \in Posters :
    Common(c, Transfers) \/ PgOnly(c) \/ MemOnly(c) \/ Cancel(c)
SpecCancel == Init /\ [][NextCancel]_vars

\* The final revision with every goroutine scheduled fairly: a call that can
\* take a step takes it (the store and the publisher return).
SpecPgFair ==
  InitPg /\ [][NextPg]_vars /\ \A c \in Posters : WF_vars(Proceed(c))

\* The registry scenario: NumCalls + 1 goroutines, each calling getAccountLock
\* twice for accounts out of LookupAccounts, in any interleaving.
NextRegistry ==
  \E g \in Calls :
    \/ CallGetAccountLock(g)
    \/ MapMuLock(g)
    \/ MuMapLookup(g)
    \/ MuMapInsert(g)
    \/ ReturnMutex(g)
SpecRegistry == Init /\ [][NextRegistry]_vars

\* ------------------------------------------------------------- properties

Returned(c) == pc[c] = "done"

\* The idempotency check of call c found no transaction with its key.
Fresh(c) ==
  pc[c] \notin {"idle", "check"} /\ ~exists[c] /\ result[c].err # "store"

\* The stored transactions with idempotency key k.
RowsOf(k) == {r \in transactions : r.key = k}

\* The stored entries of the transaction with this id, in insertion order.
EntriesOfTx(id) == SelectSeq(entries, LAMBDA e : e.id[1] = id)

\* The stored entries of the transactions submitted under key k.
EntriesOfKey(k) == SelectSeq(entries, LAMBDA e : tx[e.id[1]].key = k)

\* Some row of the transaction of call c is in the store.
Wrote(c) == (\E r \in transactions : r.id = c) \/ EntriesOfTx(c) # <<>>

\* The debit/credit pair the specification asks for a transaction t.
IsPairOf(es, t) ==
  /\ Len(es) = 2
  /\ es[1] = [id |-> <<t.id, "-debit">>, account |-> t.from,
              amount |-> 0 - t.amount, createdAt |-> t.createdAt]
  /\ es[2] = [id |-> <<t.id, "-credit">>, account |-> t.to,
              amount |-> t.amount, createdAt |-> t.createdAt]
  /\ es[1].amount + es[2].amount = 0

\* The account whose mutex call c is about to Lock(), if any.
Wanted(c) ==
  IF pc[c] = "lockFirst" THEN {FirstLock(tx[c])}
  ELSE IF pc[c] = "lockSecond" THEN {SecondLock(tx[c])}
  ELSE {}

\* Call c is blocked in Lock() on a mutex that call d holds.
WaitsFor(c, d) == \E a \in Wanted(c) : holder[a] = d

\* Some calls wait for each other in a circle.
CircularWait ==
  \E n \in 1..Cardinality(Calls) : \E f \in [1..n -> Calls] :
    \A i \in 1..n : WaitsFor(f[i], f[(i % n) + 1])

\* C1: once a call with key k has returned 'posted', every call with key k
\* that arrives later returns 'duplicate' (unless the store's lookup itself
\* fails), and the store holds exactly one transaction with key k and exactly
\* its two entries.
C1_SequentialIdempotence ==
  \A c, d \in Calls :
    ( /\ Returned(c) /\ Outcome(c) = "posted"
      /\ Returned(d) /\ c \in doneBefore[d]
      /\ tx[d].key = tx[c].key /\ result[d].err # "store" )
    => /\ Outcome(d) = "duplicate"
       /\ \E r \in transactions :
            RowsOf(tx[c].key) = {r} /\ IsPairOf(EntriesOfKey(tx[c].key), r)

\* C2: whatever the interleaving of the calls submitted under one key k, the
\* store never holds more than one transaction for k, holds for k exactly the
\* debit/credit pair of that transaction and nothing else, and holds exactly
\* one transaction for k once a persistence call for k has gone through the
\* database (it succeeded, or met the stored key).
C2_ExactlyOnce ==
  \A k \in Keys :
    /\ Cardinality(RowsOf(k)) <= 1
    /\ \A r \in RowsOf(k) : IsPairOf(EntriesOfKey(k), r)
    /\ RowsOf(k) = {} => EntriesOfKey(k) = <<>>
    /\ (\E c \in Calls : tx[c].key = k
                         /\ saved[c] \in {"success", "duplicateKey"})
       => Cardinality(RowsOf(k)) = 1

\* C2 witness: two calls under the same key both passed the idempotency check
\* and both went on to persist; one was saved, the other met the unique key.
C2_Witness ==
  \E c, d \in Calls :
    /\ c # d /\ tx[c].key = tx[d].key
    /\ Fresh(c) /\ Fresh(d) /\ Returned(c) /\ Returned(d)
    /\ saved[c] = "success" /\ saved[d] = "duplicateKey"
    /\ Cardinality(RowsOf(tx[c].key)) = 1

\* C3: a call with a positive amount and a fresh key that returned 'posted'
\* has added exactly two entries: the debit on from_account with -amount and
\* id <tx.id>-debit, the credit on to_account with +amount and id
\* <tx.id>-credit, both with the transaction's created_at, summing to zero.
C3_DoubleEntryPair ==
  \A c \in Calls :
    (Returned(c) /\ Outcome(c) = "posted" /\ tx[c].amount > 0 /\ Fresh(c))
    => IsPairOf(EntriesOfTx(c), tx[c])

\* C4: a call whose persistence failed has, once it returned, none of its
\* three rows in the store.
C4_AllOrNothingOnFailure ==
  \A c \in Calls :
    (Returned(c) /\ saved[c] \in {"failure", "duplicateKey"}) => ~Wrote(c)

\* C4 witness: a call returned after its persistence failed, with no row of
\* its own in a store that holds another call's rows.
C4_Witness ==
  \E c \in Calls :
    /\ Returned(c) /\ saved[c] = "failure" /\ ~Wrote(c)
    /\ transactions # {} /\ entries # <<>>

\* C5: in every state, calls in progress included, each stored transaction
\* has its debit and its credit entry in the store, and each stored entry
\* belongs to a stored transaction: what a reader sees of a transaction is all
\* three rows or none.
C5_NoPartialPosting ==
  /\ \A r \in transactions : IsPairOf(EntriesOfTx(r.id), r)
  /\ \A i \in 1..Len(entries) :
       \E r \in transactions : r.id = entries[i].id[1]

\* C5 witness: a call has persisted its rows and has not returned yet, while
\* another call is in progress.
C5_Witness ==
  \E c, d \in Calls :
    /\ c # d /\ pc[c] = "publish" /\ saved[c] = "success" /\ Wrote(c)
    /\ pc[d] \notin {"idle", "done"}

\* C6: concurrent transfers between different accounts, opposite directions
\* and three-account cycles included, never wait for each other in a circle,
\* and under fair scheduling every call that was received returns: from some
\* point on no call is in progress.
C6_DeadlockFreedom ==
  /\ [](~CircularWait)
  /\ <>[](\A c \in Calls : pc[c] \in {"idle", "done"})

\* C6 witness: the calls form the cycle A to B, B to C, C to A, and they wait
\* in a chain: one waits for a lock of a second, which waits for a lock of a
\* third.
C6_Witness ==
  /\ {<<tx[c].from, tx[c].to>> : c \in Calls}
       = {<<"A", "B">>, <<"B", "C">>, <<"C", "A">>}
  /\ \E c, d, e \in Calls :
       c # d /\ d # e /\ c # e /\ WaitsFor(c, d) /\ WaitsFor(d, e)

\* C7: a self-transfer (from_account = to_account) with a positive amount and
\* a fresh key never waits for a lock it holds itself, and once returned it is
\* 'posted' with its two entries, which cancel out in the account's balance.
C7_SelfTransferTerminates ==
  \A c \in Calls :
    (tx[c].from = tx[c].to /\ tx[c].amount > 0 /\ Fresh(c))
    => /\ ~WaitsFor(c, c)
       /\ Returned(c) => /\ Outcome(c) = "posted"
                         /\ IsPairOf(EntriesOfTx(c), tx[c])

\* C8: a call with a fresh key and an amount <= 0 returns a validation error,
\* no row of it is in the store, and no step of it changes the stored
\* transactions or entries.
C8_NonPositiveRejected ==
  /\ [](\A c \in Calls :
          (Returned(c) /\ tx[c].amount <= 0 /\ Fresh(c))
          => (Outcome(c) = "validationError" /\ ~Wrote(c)))
  /\ [][\A c \in Calls :
          (pc'[c] # pc[c] /\ tx'[c].amount <= 0)
          => (transactions' = transactions /\ entries' = entries)]_vars

\* C8 witness: a call with a non-positive amount returned its validation
\* error, in a store that holds another call's rows.
C8_Witness ==
  \E c \in Calls :
    /\ Returned(c) /\ tx[c].amount <= 0 /\ Fresh(c)
    /\ Outcome(c) = "validationError" /\ ~Wrote(c)
    /\ transactions # {} /\ entries # <<>>

\* C9: a call whose from_account or to_account is the empty string returns a
\* validation error and writes no transaction and no entry.
C9_MissingAccountRejected ==
  \A c \in Calls :
    (Returned(c) /\ (tx[c].from = "" \/ tx[c].to = "") /\ Fresh(c))
    => (Outcome(c) = "validationError" /\ ~Wrote(c))

\* C10: a call whose persistence call reported a failure other than a
\* duplicate key returns an error (storageError), never 'posted'.
C10_StorageFailureSurfaced ==
  \A c \in Calls :
    (Returned(c) /\ saved[c] = "failure") => Outcome(c) = "storageError"

\* The publisher took an event for the transaction of call c.
Published(c) == \E m \in published : m.event.txid = c

\* Call c is past its Publish call.
PublishDone(c) == rev = "pg" /\ saved[c] # None /\ pc[c] \in {"return", "done"}

\* The sum of the amounts of the stored entries of account a, entry by entry.
EntrySum(a) ==
  LET S[i \in 0..Len(entries)] ==
        IF i = 0 THEN 0
        ELSE S[i - 1] + (IF entries[i].account = a THEN entries[i].amount
                         ELSE 0)
  IN S[Len(entries)]

\* C11: a call that passed the idempotency check and whose persistence call
\* met a transaction with the same key, committed by a concurrent call,
\* returns 'duplicate' and has written no row.
C11_BackstopDuplicate ==
  \A c \in Calls :
    (Returned(c) /\ Fresh(c) /\ saved[c] = "duplicateKey")
    => (Outcome(c) = "duplicate" /\ ~Wrote(c))

\* C12: in every reachable store state and for every account a, GetBalance(a)
\* is the sum of the amounts of the stored entries of a, and zero when a has
\* no entry.
C12_BalanceIsEntrySum ==
  \A a \in Accounts :
    /\ GetBalance(a) = EntrySum(a)
    /\ (\A i \in 1..Len(entries) : entries[i].account # a)
       => GetBalance(a) = 0

\* C12 witness: A paid B twice, so A has two entries and the balance -2, B has
\* two entries and the balance 2, and C has no entry.
C12_Witness ==
  /\ Len(GetEntriesByAccount("A")) = 2 /\ GetBalance("A") = 0 - 2
  /\ Len(GetEntriesByAccount("B")) = 2 /\ GetBalance("B") = 2
  /\ GetEntriesByAccount("C") = <<>>

\* C13: a call whose persist succeeded and whose Publish failed returns
\* 'posted', and its transaction and two entries stay in the store.
C13_NotificationFailureAbsorbed ==
  \A c \in Calls :
    (PublishDone(c) /\ saved[c] = "success" /\ ~Published(c))
    => /\ Returned(c) => Outcome(c) = "posted"
       /\ result[c] = [replayed |-> FALSE, err |-> "nil"]
       /\ tx[c] \in transactions
       /\ IsPairOf(EntriesOfTx(c), tx[c])

\* C13 witness: a call returned 'posted' after its Publish failed, and its
\* rows are stored.
C13_Witness ==
  \E c \in Calls :
    /\ Returned(c) /\ PublishDone(c) /\ saved[c] = "success" /\ ~Published(c)
    /\ Outcome(c) = "posted" /\ tx[c] \in transactions

\* C14: every published event is the event of a stored transaction that has
\* its two entries stored; a call whose persistence failed, or that ended as
\* duplicate or validation error, has published no event.
C14_NotifyAfterPersistOnly ==
  /\ \A m \in published :
       \E r \in transactions :
         r.id = m.event.txid /\ IsPairOf(EntriesOfTx(r.id), r)
  /\ \A c \in Calls :
       ( \/ saved[c] \in {"failure", "duplicateKey"}
         \/ (Returned(c) /\ Outcome(c) \in {"duplicate", "validationError"}) )
       => ~Published(c)

\* Call c is between the arrival of its request and its return.
InProgress(c) == pc[c] \notin {"idle", "done"}

\* The accounts call c touches.
AccountsOf(c) == {tx[c].from, tx[c].to}

\* Calls c and d touch no common account.
Disjoint(c, d) == AccountsOf(c) \cap AccountsOf(d) = {}

\* Call c holds both its locks: it is inside its locked section.
InLockedSection(c) ==
  InProgress(c) /\ \A a \in AccountsOf(c) : holder[a] = c

\* Every call in progress besides c touches accounts disjoint from those of c.
OthersDisjoint(c) ==
  \A d \in Calls \ {c} : InProgress(d) => Disjoint(c, d)

\* C15: a call never waits for an account lock held by a call on a disjoint
\* account set; while all other calls in progress are on disjoint account
\* sets, each of its Lock() calls can be taken at once; and under fair
\* scheduling all calls complete.
C15_DisjointDoNotBlock ==
  /\ [](\A c, d \in Calls :
          (c # d /\ InProgress(c) /\ InProgress(d) /\ Disjoint(c, d))
          => ~WaitsFor(c, d))
  /\ [](\A c \in Calls :
          OthersDisjoint(c)
          => /\ pc[c] = "lockFirst" => ENABLED LockFirst(c)
             /\ pc[c] = "lockSecond" => ENABLED LockSecond(c))
  /\ <>[](\A c \in Calls : pc[c] \in {"idle", "done"})

\* C15 witness: a call on {A, B} and a call on {C, D} are inside their locked
\* sections at the same time.
C15_Witness ==
  \E c, d \in Calls :
    /\ AccountsOf(c) = {"A", "B"} /\ AccountsOf(d) = {"C", "D"}
    /\ InLockedSection(c) /\ InLockedSection(d)

\* The call whose transaction the i-th stored entry belongs to.
WriterOf(i) == entries[i].id[1]

\* Between two stored entries of one call lies no entry of another call that
\* shares an account with it.
NoInterleaving ==
  \A i, k \in 1..Len(entries) :
    (i < k /\ WriterOf(i) = WriterOf(k))
    => \A j \in (i + 1)..(k - 1) :
         WriterOf(j) = WriterOf(i) \/ Disjoint(WriterOf(i), WriterOf(j))

\* C16: the entries of two calls that share an account never interleave in
\* the store; and whenever a call writes an entry, every other call that
\* shares an account with it has either returned (it had the lock before) or
\* holds no lock of a shared account and has written no entry yet (it gets
\* the lock after), so the entries are stored in lock-acquisition order.
C16_SharedAccountSerialized ==
  /\ []NoInterleaving
  /\ [][Len(entries') > Len(entries)
        => LET c == entries'[Len(entries')].id[1]
           IN \A d \in Calls \ {c} :
                (pc[d] # "idle" /\ ~Disjoint(c, d))
                => \/ pc[d] = "done"
                   \/ /\ EntriesOfTx(d) = <<>>
                      /\ \A a \in AccountsOf(c) \cap AccountsOf(d) :
                           holder[a] = c]_vars

\* C16 witness: a call has written its debit entry and not yet its credit
\* entry, while another call that shares an account with it waits for that
\* account's lock.
C16_Witness ==
  \E c, d \in Calls :
    /\ c # d /\ pc[c] = "saveCredit" /\ Len(EntriesOfTx(c)) = 1
    /\ ~Disjoint(c, d) /\ WaitsFor(d, c)

\* C17: every step leaves each stored entry where it is, with the same id,
\* account_id, amount and created_at: the stored entries only grow at the end.
C17_EntriesAppendOnly ==
  [][/\ Len(entries') >= Len(entries)
     /\ \A i \in 1..Len(entries) : entries'[i] = entries[i]]_vars

\* C17 witness: the entries of two transactions are stored, those of the
\* first still in front.
C17_Witness ==
  /\ Len(entries) = 4
  /\ WriterOf(1) = WriterOf(2) /\ WriterOf(3) = WriterOf(4)
  /\ WriterOf(1) # WriterOf(3)

\* C18: no step changes or removes a stored transaction, and at most one
\* transaction is stored per idempotency key: the transaction stored for a
\* key stays the same whatever later calls with the key do.
C18_TransactionNeverUpdated ==
  [][/\ \A r \in transactions : r \in transactions'
     /\ \A r, q \in transactions' : r.key = q.key => r = q]_vars

\* C18 witness: a call with a stored key and other accounts went through to
\* the persistence call, and the transaction stored for the key is still the
\* one of the first call.
C18_Witness ==
  \E c, d \in Calls :
    /\ c # d /\ tx[c].key = tx[d].key /\ tx[c].from # tx[d].from
    /\ Returned(d) /\ saved[d] = "duplicateKey"
    /\ RowsOf(tx[c].key) = {tx[c]}

\* No call is in progress.
Quiescent == \A c \in Calls : ~InProgress(c)

\* C19: whenever no call is in progress, there are exactly twice as many
\* stored entries as stored transactions, and each stored transaction has
\* exactly one entry <id>-debit and exactly one entry <id>-credit.
C19_TwoEntriesPerTransaction ==
  Quiescent
  => /\ Len(entries) = 2 * Cardinality(transactions)
     /\ \A r \in transactions :
          /\ Cardinality({i \in 1..Len(entries) :
                            entries[i].id = <<r.id, "-debit">>}) = 1
          /\ Cardinality({i \in 1..Len(entries) :
                            entries[i].id = <<r.id, "-credit">>}) = 1

\* C19 witness: all calls have returned and two transactions are stored.
C19_Witness ==
  /\ Quiescent /\ \A c \in Posters : Returned(c)
  /\ Cardinality(transactions) = 2 /\ Len(entries) = 4

\* The mutexes call c holds.
HeldBy(c) == {a \in Accounts : holder[a] = c}

\* C20: a call whose context was cancelled before its persistence committed
\* has no row in the store, and takes no lock after the cancellation: none at
\* all when it was cancelled before or while waiting for its first lock, at
\* most the first one when it was cancelled while waiting for the second.
C20_CancellationWritesNothing ==
  \A c \in Calls :
    cancelled[c] # None
    => /\ ~Wrote(c)
       /\ cancelled[c] \in {"check", "getDebitLock", "getCreditLock",
                            "lockFirst"}
          => HeldBy(c) = {}
       /\ cancelled[c] = "lockSecond" => HeldBy(c) \subseteq {FirstLock(tx[c])}

\* C21: every event published for a call whose persist succeeded is delivered
\* on the topic transactions.completed and carries the transaction's id,
\* from_account, to_account and amount, and a timestamp not before the
\* transaction's created_at.
C21_EventTopicAndPayload ==
  \A m \in published :
    saved[m.event.txid] = "success"
    => /\ m.topic = "transactions.completed"
       /\ \E r \in transactions :
            /\ r.id = m.event.txid /\ r.from = m.event.from
            /\ r.to = m.event.to /\ r.amount = m.event.amount
            /\ r.createdAt <= m.event.occurredAt

\* The call found its key stored at the pre-check.
PreCheckHit(c) == pc[c] = "done" /\ exists[c]

\* C22: the step in which a call finds its key stored ends the call with
\* 'duplicate' and changes neither the store, nor the lock registry, nor any
\* mutex, nor the published events; a call that ended so holds no lock and
\* has no row and no event.
C22_PreCheckHitNoEffect ==
  /\ [](\A c \in Calls :
          PreCheckHit(c)
          => (Outcome(c) = "duplicate" /\ HeldBy(c) = {} /\ ~Wrote(c)
              /\ ~Published(c)))
  /\ [][\A c \in Calls :
          (pc[c] = "check" /\ exists'[c])
          => /\ pc'[c] = "done"
             /\ result'[c] = [replayed |-> TRUE, err |-> "nil"]
             /\ UNCHANGED <<transactions, entries, muMap, holder,
                            published>>]_vars

\* C22 witness: a call returned 'duplicate' at the pre-check, and an account
\* it names has no entry in the lock registry.
C22_Witness ==
  \E c \in Calls :
    /\ PreCheckHit(c) /\ Outcome(c) = "duplicate"
    /\ \E a \in AccountsOf(c) : a \notin muMap

\* C23: a call on two different accounts that holds one of its locks and not
\* yet the other holds the lock of the smaller account id, and what it is
\* about to lock, or waits for, is the lock of the larger one, whichever is
\* from_account and whichever is to_account.
C23_FixedLockOrder ==
  \A c \in Calls :
    (InProgress(c) /\ tx[c].from # tx[c].to)
    => /\ \A a \in HeldBy(c) : \A b \in Wanted(c) : Rank(a) < Rank(b)
       /\ pc[c] = "lockFirst"
          => \A a \in Wanted(c) : \A b \in AccountsOf(c) : Rank(a) <= Rank(b)
       /\ pc[c] = "lockSecond"
          => \A a \in HeldBy(c) : \A b \in AccountsOf(c) : Rank(a) <= Rank(b)

\* C23 witness: a call whose to_account is the smaller id holds the lock of
\* its to_account and waits for the lock of its from_account, which another
\* call holds.
C23_Witness ==
  \E c, d \in Calls :
    /\ c # d /\ InProgress(c) /\ Rank(tx[c].to) < Rank(tx[c].from)
    /\ HeldBy(c) = {tx[c].to} /\ Wanted(c) = {tx[c].from} /\ WaitsFor(c, d)

\* C24: a call that has returned, whatever its outcome, holds no account
\* lock.
C24_LocksReleasedOnExit ==
  \A c \in Calls : Returned(c) => HeldBy(c) = {}

\* C24 witness: one call returned its validation error, another returned
\* 'posted', both went through the locks, and every mutex is free.
C24_Witness ==
  \E c, d \in Calls :
    /\ Returned(c) /\ Outcome(c) = "validationError"
    /\ Returned(d) /\ Outcome(d) = "posted" /\ saved[d] # None
    /\ AccountsOf(c) \cup AccountsOf(d) \subseteq muMap
    /\ \A a \in Accounts : holder[a] = NoCall

\* C26: every step keeps every entry of the lock registry, and a step that
\* adds an entry is the getAccountLock call of a PostTransaction call whose
\* pre-check found no stored key, for one of that call's accounts.
C26_RegistryOnlyGrows ==
  [][/\ muMap \subseteq muMap'
     /\ muMap' # muMap
        => \E c \in Calls :
             /\ ~exists[c] /\ result[c] = NoResult
             /\ \/ pc[c] = "getDebitLock" /\ pc'[c] = "getCreditLock"
                   /\ muMap' = muMap \cup {tx[c].from}
                \/ pc[c] = "getCreditLock" /\ pc'[c] = "lockFirst"
                   /\ muMap' = muMap \cup {tx[c].to}]_vars

\* C26 witness: every call has returned and the registry still has the
\* entries of all three accounts the calls named.
C26_Witness ==
  /\ \A c \in Posters : Returned(c)
  /\ muMap = UNION {AccountsOf(c) : c \in Posters}
  /\ Cardinality(muMap) = 3

\* The request of call c is invalid: non-positive amount or missing account.
Invalid(c) ==
  pc[c] # "idle" /\ (tx[c].amount <= 0 \/ tx[c].from = "" \/ tx[c].to = "")

\* C27: a call with an invalid request never holds an account lock and never
\* stands at, or waits in, a Lock() call; once returned, its outcome is the
\* validation error (unless its key was stored or the pre-check failed).
C27_ValidationBeforeLocks ==
  \A c \in Calls :
    Invalid(c)
    => /\ HeldBy(c) = {} /\ Wanted(c) = {}
       /\ (Returned(c) /\ Fresh(c)) => Outcome(c) = "validationError"

\* C29: a call that stands in its Publish call holds no account lock, so no
\* other call waits for it, however long Publish takes.
C29_NotifierOutsideBlockingPath ==
  \A c \in Calls :
    pc[c] = "publish"
    => (HeldBy(c) = {} /\ \A d \in Calls : ~WaitsFor(d, c))

\* Where a call stands while it writes to the store.
Writing == {"persist", "saveTx", "saveDebit", "saveCredit"}

\* Where a call stands between its second Lock() and its deferred Unlock()s.
LockedSection == Writing \cup {"validate", "publish", "return"}

\* C30: a call that stands at a store write holds the lock of its
\* from_account and of its to_account; every step that changes the stored
\* transactions or entries is taken by such a call; and no two calls are
\* inside their locked sections on a common account at the same time.
C30_WritesUnderBothLocks ==
  /\ [](\A c \in Calls :
          pc[c] \in Writing
          => (holder[tx[c].from] = c /\ holder[tx[c].to] = c))
  /\ [](\A c, d \in Calls :
          (c # d /\ pc[c] \in LockedSection /\ pc[d] \in LockedSection)
          => Disjoint(c, d))
  /\ [][(transactions' # transactions \/ entries' # entries)
        => \E c \in Calls :
             /\ pc[c] \in Writing /\ pc'[c] # pc[c]
             /\ holder[tx[c].from] = c /\ holder[tx[c].to] = c]_vars

\* C30 witness: a call stands at its persistence call with both locks held,
\* while another call waits for one of them.
C30_Witness ==
  \E c, d \in Calls :
    /\ c # d /\ pc[c] = "persist" /\ tx[c].from # tx[c].to
    /\ HeldBy(c) = AccountsOf(c) /\ WaitsFor(d, c)

\* The state of the posting state machine that call c is in.
StageOf(c) ==
  CASE pc[c] = "idle" -> "None"
    [] pc[c] = "check" -> "Received"
    [] pc[c] \in {"getDebitLock", "getCreditLock", "lockFirst", "lockSecond"}
         -> "DuplicateCheck"
    [] pc[c] = "validate" -> "LocksAcquired"
    [] pc[c] \in Writing -> "Validated"
    [] pc[c] = "publish" -> "Persisted"
    [] pc[c] = "return" -> "NotifyBestEffort"
    [] pc[c] = "done" -> "Done"

\* The moves of the posting state machine: the chain Received to Done, the
\* exit of a duplicate (or of a failed lookup) after the check, and the exit
\* of a validation error from under the locks.
StageMoves ==
  {<<"None", "Received">>, <<"Received", "DuplicateCheck">>,
   <<"Received", "Done">>, <<"DuplicateCheck", "LocksAcquired">>,
   <<"LocksAcquired", "Validated">>, <<"LocksAcquired", "NotifyBestEffort">>,
   <<"Validated", "Persisted">>, <<"Persisted", "NotifyBestEffort">>,
   <<"NotifyBestEffort", "Done">>}

\* C28: every step of a call moves it along the posting state machine, no
\* state skipped or taken out of order; every step that writes to the store
\* is taken by a call that holds both its locks and passed the validation;
\* and under fair scheduling every call that was received reaches Done.
C28_PostingStateMachine ==
  /\ [][\A c \in Calls :
          StageOf(c)' # StageOf(c) => <<StageOf(c), StageOf(c)'>> \in StageMoves
       ]_vars
  /\ [][(transactions' # transactions \/ entries' # entries)
        => \E c \in Calls :
             /\ StageOf(c) = "Validated" /\ StageOf(c)' = "Persisted"
             /\ HeldBy(c) = AccountsOf(c) /\ tx[c].amount > 0]_vars
  /\ \A c \in Calls : (pc[c] # "idle") ~> (pc[c] = "done")

\* The <<account id, mutex>> pairs that getAccountLock has returned so far.
Handed == UNION {lookup[g].got : g \in Calls}

\* C25: all getAccountLock calls for one account id return the same mutex,
\* which is the one the registry holds for the id; the registry never
\* replaces the mutex of an id; and no mutex is allocated besides the one per
\* registered id.
C25_OneLockPerAccount ==
  /\ [](\A p, q \in Handed : p[1] = q[1] => p[2] = q[2])
  /\ [](\A p \in Handed : mutexOf[p[1]] = p[2])
  /\ [](created = Cardinality({a \in Accounts : mutexOf[a] # NoMutex}))
  /\ [][\A a \in Accounts :
          mutexOf[a] # NoMutex => mutexOf'[a] = mutexOf[a]]_vars

\* C25 witness: two goroutines asked for the lock of A before it existed, one
\* created it while the other waited for mapMu, and both got the same mutex.
C25_Witness ==
  \E g, h \in Calls :
    /\ g # h /\ lookup[g].n = 1 /\ lookup[h].n = 1
    /\ ~lookup[g].exists /\ lookup[h].exists
    /\ \E m \in 1..created : lookup[g].got = {<<"A", m>>}
                             /\ lookup[h].got = {<<"A", m>>}

\* The sum of the amounts of all stored entries, entry by entry.
TotalOfEntries ==
  LET S[i \in 0..Len(entries)] ==
        IF i = 0 THEN 0 ELSE S[i - 1] + entries[i].amount
  IN S[Len(entries)]

\* The sum of GetBalance over all accounts.
TotalOfBalances ==
  LET S[i \in 0..Len(AccountOrder)] ==
        IF i = 0 THEN 0 ELSE S[i - 1] + GetBalance(AccountOrder[i])
  IN S[Len(AccountOrder)]

\* C31: whenever no call is in progress, the amounts of all stored entries
\* sum to zero, and so do the balances of all accounts.
C31_MoneyConserved ==
  Quiescent
  => /\ TotalOfEntries = 0
     /\ TotalOfBalances = TotalOfEntries

\* C31 witness: no call is in progress, one call was posted and moved money
\* between two accounts, and another was rejected, was a duplicate, or had
\* its persistence fail.
C31_Witness ==
  /\ Quiescent
  /\ \E c, d \in Calls :
       /\ c # d /\ Returned(c) /\ Returned(d)
       /\ saved[c] = "success" /\ GetBalance(tx[c].to) = tx[c].amount
       /\ GetBalance(tx[c].from) = 0 - tx[c].amount
       /\ \/ Outcome(d) \in {"validationError", "duplicate"}
          \/ saved[d] = "failure"

\* The events published for transactions submitted under key k.
EventsOfKey(k) == {m \in published : tx[m.event.txid].key = k}

\* C32: at most one completion event is published per idempotency key, and
\* exactly one once a call with the key has returned 'posted' with its event
\* taken by the publisher.
C32_OneEventPerKey ==
  \A k \in Keys :
    /\ Cardinality(EventsOfKey(k)) <= 1
    /\ (\E c \in Calls : /\ tx[c].key = k /\ Returned(c)
                         /\ Outcome(c) = "posted" /\ Published(c))
       => Cardinality(EventsOfKey(k)) = 1

\* Call c returned a validation error.
Rejected(c) == Returned(c) /\ Outcome(c) = "validationError"

\* C33: a call that returned a validation error has stored no transaction,
\* so its key is not stored unless a valid call with the key stored it (not
\* at all when no other call has the key); and a call with
\* the same key and a positive amount that arrives after it, finds the key
\* free and returns, has returned 'posted' with its transaction and its two
\* entries stored.
C33_RejectedKeyNotConsumed ==
  /\ \A c \in Calls :
       Rejected(c)
       => /\ \A r \in RowsOf(tx[c].key) : r.id # c /\ r.amount > 0
          /\ (\A d \in Calls \ {c} : tx[d].key # tx[c].key)
             => ~TransactionExists(tx[c].key)
  /\ \A c, d \in Calls :
       ( /\ Rejected(c) /\ c \in doneBefore[d] /\ tx[d].key = tx[c].key
         /\ tx[d].amount > 0 /\ Returned(d) /\ result[d].err # "store"
         /\ \A e \in Calls \ {c, d} : tx[e].key # tx[c].key )
       => /\ Outcome(d) = "posted"
          /\ tx[d] \in transactions
          /\ IsPairOf(EntriesOfTx(d), tx[d])

====
